---------------------------- MODULE Spec2Model ----------------------------
(***************************************************************************)
(* A model of the Whiteboard component (src/src/components/Whiteboard.tsx):*)
(* the committed stroke list, the pointer capture state, the in-progress   *)
(* stroke, the persistence writes and loads in flight, the realtime stroke *)
(* channel, the presence channel and the drawing surface.                  *)
(*                                                                         *)
(* The component runs on one event loop, so every handler is one action:   *)
(* the handler's body, the state updates it queues, the re-render and the  *)
(* effects that re-render runs (the redraw).  An await splits a function in *)
(* two actions: the part before it and the continuation.                   *)
(***************************************************************************)
EXTENDS Integers, Sequences, FiniteSets, TLC

(***************************************************************************)
(* Bounds of the model.  The whole system (Spec) is checked in parts: each *)
(* specification below restricts what the environment does in a session    *)
(* (how many gestures the user makes, how many rows are stored, how many   *)
(* loads are issued) through the budget it starts with, and which events   *)
(* of the environment occur through its next-state relation.               *)
(***************************************************************************)
CaptureGestures == 2  \* SpecCapture: pointer-downs of the session
CapturePts == 3       \* SpecCapture: pointer events of one gesture
RoomGestures == 1     \* SpecRoom: pointer-downs of the session
RoomPts == 2          \* SpecRoom: pointer events of one gesture
RoomRows == 1         \* SpecRoom: rows ever stored in whiteboard_strokes
LogGestures == 1      \* SpecLog: pointer-downs of the session
LogPts == 2           \* SpecLog: pointer events of one gesture
LogRows == 1          \* SpecLog: rows ever stored in whiteboard_strokes
LogLoads == 2         \* SpecLog: loads ever issued (the first one at mount)
LogClock == 1         \* SpecLog: readings of Date.now() are 0..LogClock
ConvN == 3            \* SpecConv: insert notifications delivered to both clients
RenderGestures == 1   \* SpecRender: pointer-downs of the session
RenderPts == 2        \* SpecRender: pointer events of one gesture
RenderRows == 1       \* SpecRender: rows ever stored in whiteboard_strokes
SnapKeys == 2         \* SpecPresence: connection keys of a presence snapshot
PresencePts == 2      \* SpecPresence: pointer events of the session's gesture
SubsLoads == 3        \* SpecSubs: loads ever issued, one at mount and one per room change
SubsRows == 2         \* SpecSubs: rows ever stored in whiteboard_strokes

Budget(g, p, c, r, l) == [gestures |-> g, pts |-> p, clock |-> c, rows |-> r, loads |-> l]

(***************************************************************************)
(* The values the environment supplies.                                    *)
(***************************************************************************)
Rooms == {"R1", "R2"}
\* the toolbar's settings: <<currentTool, currentColor, brushSize>>
ToolbarStates == {<<"pen", "#ff0000", 4>>, <<"eraser", "#00ff00", 8>>}
userId == "U1"
RemoteUser == "U2"
\* canvas.getBoundingClientRect(): the surface's top-left corner in client coordinates
RectLeft == 5
RectTop == 5
\* the pointer's client position at the k-th event of a gesture: the handlers copy
\* coordinates and never inspect them, so one path of distinct positions stands for all
PointerPath(k) == <<RectLeft + 10 * k, RectTop + 10 * k>>
Null == [kind |-> "null", ref |-> 0, val |-> <<>>]

\* ctx defaults of a 2d context
DefaultCtx == [comp |-> "source-over", strokeStyle |-> "#000000", lineWidth |-> 1]

VARIABLES
  budget,            \* what the environment does at most in this session
  conv,              \* SpecConv: a second client of the room and the notifications due
  roomId,            \* prop roomId
  currentTool,       \* currentToolRef.current
  currentColor,      \* currentColorRef.current
  brushSize,         \* brushSizeRef.current
  strokes,           \* the committed list: state strokes / strokesRef.current
  heap,              \* the point arrays allocated by pointer-down, by address
  currentPointsRef,  \* currentPointsRef.current: Null or a reference into heap
  isDrawingRef,      \* isDrawingRef.current
  remoteCursors,     \* state remoteCursors, in Map insertion order
  canvas,            \* the drawing operations on the surface since it was last cleared
  clock,             \* Date.now()
  writes,            \* persistence inserts in flight
  loads,             \* stroke loads in flight
  loadSeq,           \* loads issued so far
  db,                \* the rows of whiteboard_strokes, in creation order
  rowSeq,            \* rows stored so far
  notifs,            \* stroke-channel events delivered to this client, not yet handled
  strokeSubs,        \* the live stroke channels, each by the room it was created for
  cursorSubs,        \* the live presence channels, each by the room it was created for
  presenceState,     \* cursorChannel.current.presenceState() at the last sync event
  gesture            \* history: the points of the pointer events of the current gesture,
                     \* whether it started from Idle and with a commit in flight,
                     \* whether its pointer capture was lost

vars == <<budget, conv, roomId, currentTool, currentColor, brushSize, strokes, heap,
          currentPointsRef, isDrawingRef, remoteCursors, canvas, clock, writes,
          loads, loadSeq, db, rowSeq, notifs, strokeSubs, cursorSubs,
          presenceState, gesture>>

(***************************************************************************)
(* Point arrays.  A stroke's points field is a reference to an array that  *)
(* pointer-down allocated (shared with currentPointsRef), an array parsed  *)
(* from a payload (referenced by that stroke alone, so held by value), or  *)
(* null.                                                                   *)
(***************************************************************************)
Ref(a) == [kind |-> "ref", ref |-> a, val |-> <<>>]
Val(s) == [kind |-> "val", ref |-> 0, val |-> s]

PointsOf(hp, p) ==
  IF p.kind = "ref" THEN hp[p.ref]
  ELSE IF p.kind = "val" THEN p.val
  ELSE <<>>

getPointFromEvent(clientX, clientY) ==
  [x |-> clientX - RectLeft, y |-> clientY - RectTop]


(***************************************************************************)
(* The renderer.  A drawing operation records what was drawn (src), the    *)
(* compositing mode, style and line width of the context when it was       *)
(* drawn, its points and, for a cursor, its label.                         *)
(***************************************************************************)
DrawOp(src, comp, style, width, pts, label) ==
  [src |-> src, comp |-> comp, style |-> style, width |-> width, pts |-> pts,
   label |-> label]

Background == DrawOp("background", "source-over", "#1e293b", 0, <<>>, "")

\* a loop over strokesRef.current that ends at the first stroke it cannot draw
DrawCommittedStops(hp, ss, ctx0) ==
  LET RECURSIVE Go(_, _, _)
      Go(i, ctx, ops) ==
        IF i > Len(ss) THEN [ctx |-> ctx, ops |-> ops]
        ELSE
          LET stroke == ss[i]
              pts == PointsOf(hp, stroke.points)
          IN IF stroke.points.kind = "null" \/ Len(pts) < 2
             THEN [ctx |-> ctx, ops |-> ops]
             ELSE
               LET c1 == IF stroke.tool = "eraser"
                         THEN [ctx EXCEPT !.comp = "destination-out"]
                         ELSE [ctx EXCEPT !.comp = "source-over",
                                          !.strokeStyle = stroke.color]
                   c2 == [c1 EXCEPT !.lineWidth = stroke.size]
               IN Go(i + 1, c2,
                     Append(ops, DrawOp("committed", c2.comp, c2.strokeStyle,
                                        c2.lineWidth, pts, "")))
  IN Go(1, ctx0, <<>>)

\* the loop over strokesRef.current: the context after it and the operations drawn
DrawCommitted(hp, ss, ctx0) ==
  LET RECURSIVE Go(_, _, _)
      Go(i, ctx, ops) ==
        IF i > Len(ss) THEN [ctx |-> ctx, ops |-> ops]
        ELSE
          LET stroke == ss[i]
              pts == PointsOf(hp, stroke.points)
          IN IF stroke.points.kind = "null" \/ Len(pts) < 2
             THEN Go(i + 1, ctx, ops)
             ELSE
               LET c1 == IF stroke.tool = "eraser"
                         THEN [ctx EXCEPT !.comp = "destination-out"]
                         ELSE [ctx EXCEPT !.comp = "source-over",
                                          !.strokeStyle = stroke.color]
                   c2 == [c1 EXCEPT !.lineWidth = stroke.size]
               IN Go(i + 1, c2,
                     Append(ops, DrawOp("committed", c2.comp, c2.strokeStyle,
                                        c2.lineWidth, pts, "")))
  IN Go(1, ctx0, <<>>)

\* the transient stroke: drawn from currentPointsRef with the latest tool, color, size
DrawPending(hp, cur, tool, color, size, ctx) ==
  LET pending == PointsOf(hp, cur)
  IN IF cur.kind # "null" /\ Len(pending) >= 2
     THEN LET c1 == IF tool = "eraser"
                    THEN [ctx EXCEPT !.comp = "destination-out"]
                    ELSE [ctx EXCEPT !.comp = "source-over", !.strokeStyle = color]
              c2 == [c1 EXCEPT !.lineWidth = size]
          IN [ctx |-> [c2 EXCEPT !.comp = "source-over"],
              ops |-> <<DrawOp("pending", c2.comp, c2.strokeStyle, c2.lineWidth,
                               pending, "")>>]
     ELSE [ctx |-> ctx, ops |-> <<>>]

\* remoteCursors.forEach: a filled circle and the name, in the context's compositing mode
DrawCursors(cursors, ctx) ==
  [i \in 1..Len(cursors) |->
     DrawOp("cursor", ctx.comp, cursors[i].userColor, ctx.lineWidth,
            <<[x |-> cursors[i].x, y |-> cursors[i].y]>>, cursors[i].userName)]

redrawAll(hp, ss, cur, tool, color, size, cursors) ==
  LET committed == DrawCommitted(hp, ss, DefaultCtx)
      pending == DrawPending(hp, cur, tool, color, size, committed.ctx)
  IN <<Background>> \o committed.ops \o pending.ops
       \o DrawCursors(cursors, pending.ctx)

\* a drawSegment that uses the props of the render that attached the handlers
drawSegmentAttached(from, to, tool, color, size) ==
  DrawOp("segment", "source-over", "#ff0000", 4, <<from, to>>, "")

drawSegment(from, to, tool, color, size) ==
  IF tool = "eraser"
  THEN DrawOp("segment", "destination-out", DefaultCtx.strokeStyle, size,
              <<from, to>>, "")
  ELSE DrawOp("segment", "source-over", color, size, <<from, to>>, "")

(***************************************************************************)
(* Presence.  A snapshot (presenceState()) is the list of its connection   *)
(* keys in Object.keys order, each with its presence records.              *)
(***************************************************************************)
Presence(u, n, c, x, y) ==
  [user_id |-> u, user_name |-> n, user_color |-> c, x |-> x, y |-> y]

Ann == Presence("U1", "Ann", "#aa0000", 0, 0)
Bob == Presence("U2", "Bob", "#00aa00", 1, 1)
BobStale == Presence("U2", "Bob", "#00aa00", 2, 2)
Cy == Presence("U3", "Cy", "#0000aa", 3, 3)

Snapshots ==
  { << <<Ann>>, <<Bob>> >>,
    << <<Bob, Cy>>, <<Cy, Ann>>, <<>> >>,
    << <<BobStale>>, <<Ann, Cy>>, <<Bob>> >> }

\* cursors.set(user_id, ...): an existing key keeps its place and takes the new value
MapSet(m, c) ==
  IF \E i \in 1..Len(m) : m[i].userId = c.userId
  THEN [i \in 1..Len(m) |-> IF m[i].userId = c.userId THEN c ELSE m[i]]
  ELSE Append(m, c)

\* a sync handler that updates the Map it had instead of building a new one
SyncCursorsMerge(state) ==
  LET RECURSIVE Go(_, _)
      Go(k, cursors) ==
        IF k > Len(state) THEN cursors
        ELSE LET presences == state[k]
             IN IF Len(presences) > 0 /\ presences[1].user_id # userId
                THEN Go(k + 1,
                        MapSet(cursors,
                               [userId |-> presences[1].user_id,
                                userName |-> presences[1].user_name,
                                userColor |-> presences[1].user_color,
                                x |-> presences[1].x, y |-> presences[1].y]))
                ELSE Go(k + 1, cursors)
  IN Go(1, remoteCursors)

\* the presence sync handler's new Map
SyncCursors(state) ==
  LET RECURSIVE Go(_, _)
      Go(k, cursors) ==
        IF k > Len(state) THEN cursors
        ELSE LET presences == state[k]
             IN IF Len(presences) > 0 /\ presences[1].user_id # userId
                THEN Go(k + 1,
                        MapSet(cursors,
                               [userId |-> presences[1].user_id,
                                userName |-> presences[1].user_name,
                                userColor |-> presences[1].user_color,
                                x |-> presences[1].x, y |-> presences[1].y]))
                ELSE Go(k + 1, cursors)
  IN Go(1, <<>>)


(***************************************************************************)
(* Strokes, rows and requests.                                             *)
(***************************************************************************)
Stroke(id, points, color, size, tool, uid) ==
  [id |-> id, points |-> points, color |-> color, size |-> size, tool |-> tool,
   userId |-> uid]

Row(id, room, uid, points, color, size, tool) ==
  [id |-> id, room_id |-> room, user_id |-> uid, points |-> points,
   color |-> color, size |-> size, tool |-> tool]

\* what other participants store: a pen stroke, an eraser stroke, a stroke of one
\* point and a row whose points are missing
RemotePayloads ==
  { [points |-> Val(<<[x |-> 0, y |-> 0], [x |-> 10, y |-> 10]>>),
     color |-> "#00ff00", size |-> 4, tool |-> "pen"],
    [points |-> Val(<<[x |-> 0, y |-> 0], [x |-> 10, y |-> 10]>>),
     color |-> "#00ff00", size |-> 8, tool |-> "eraser"],
    [points |-> Val(<<[x |-> 10, y |-> 10]>>),
     color |-> "#00ff00", size |-> 4, tool |-> "pen"],
    [points |-> Null, color |-> "#00ff00", size |-> 4, tool |-> "pen"] }

\* the row -> Stroke mapping of loadStrokes and of the INSERT handler
StrokeOfRow(r) == Stroke(<<"row", r.id>>, r.points, r.color, r.size, r.tool, r.user_id)

SelectRoom(rows, room) == SelectSeq(rows, LAMBDA r : r.room_id = room)

RemoveAt(s, i) == SubSeq(s, 1, i - 1) \o SubSeq(s, i + 1, Len(s))

NoGesture == [pts |-> <<>>, fromIdle |-> FALSE, inFlight |-> FALSE, lost |-> FALSE]

NoConv == [base |-> <<>>, peer |-> <<>>, toLocal |-> {}, toPeer |-> {}]

\* the load the effect on [loadStrokes, resizeCanvas] issues
LoadRequest(n, room) ==
  [n |-> n, room |-> room, phase |-> "sent", data |-> <<>>, hasData |-> TRUE]

\* the component after its first render and effects, in a session of budget b
Mounted(b) ==
  /\ budget = b
  /\ conv = NoConv
  /\ roomId = "R1"
  /\ currentTool = "pen"
  /\ currentColor = "#ff0000"
  /\ brushSize = 4
  /\ strokes = <<>>
  /\ heap = <<>>
  /\ currentPointsRef = Null
  /\ isDrawingRef = FALSE
  /\ remoteCursors = <<>>
  /\ canvas = <<Background>>
  /\ clock = 0
  /\ writes = {}
  /\ loads = {LoadRequest(1, "R1")}
  /\ loadSeq = 1
  /\ db = <<>>
  /\ rowSeq = 0
  /\ notifs = <<>>
  /\ strokeSubs = <<"R1">>
  /\ cursorSubs = <<"R1">>
  /\ presenceState = <<>>
  /\ gesture = NoGesture

\* the effect on [strokes, redrawAll] and the one on [remoteCursors, redrawAll]
Redrawn(hp, ss, cur, cursors) ==
  redrawAll(hp, ss, cur, currentTool, currentColor, brushSize, cursors)

(***************************************************************************)
(* Pointer handlers.                                                       *)
(***************************************************************************)
handlePointerDown(button, pos) ==
  /\ button = 0
  /\ Len(heap) < budget.gestures
  /\ LET pt == getPointFromEvent(pos[1], pos[2])
     IN /\ heap' = Append(heap, <<pt>>)
        /\ currentPointsRef' = Ref(Len(heap) + 1)
        /\ gesture' = [pts |-> <<pt>>, fromIdle |-> ~isDrawingRef,
                        inFlight |-> writes # {}, lost |-> FALSE]
  /\ isDrawingRef' = TRUE
  /\ UNCHANGED <<presenceState, budget, conv, roomId, currentTool, currentColor, brushSize, strokes,
                 remoteCursors, canvas, clock, writes, loads, loadSeq, db, rowSeq,
                 notifs, strokeSubs, cursorSubs>>

\* a pointer-move handler that records whenever there is a buffer, drawing or not
handlePointerMoveAlways(pos) ==
  LET pt == getPointFromEvent(pos[1], pos[2])
  IN /\ isDrawingRef => Len(gesture.pts) < budget.pts
     /\ IF currentPointsRef = Null
        THEN /\ UNCHANGED <<heap, canvas>>
        ELSE LET pending == heap[currentPointsRef.ref]
                 prev == pending[Len(pending)]
             IN /\ Len(pending) <= budget.pts
                /\ heap' = [heap EXCEPT ![currentPointsRef.ref] = Append(pending, pt)]
                /\ canvas' = Append(canvas, drawSegment(prev, pt, currentTool,
                                                        currentColor, brushSize))
     /\ gesture' = IF isDrawingRef
                   THEN [gesture EXCEPT !.pts = Append(gesture.pts, pt)]
                   ELSE gesture
     /\ UNCHANGED <<presenceState, budget, conv, roomId, currentTool, currentColor,
                    brushSize, strokes, currentPointsRef, isDrawingRef, remoteCursors,
                    clock, writes, loads, loadSeq, db, rowSeq, notifs, strokeSubs,
                    cursorSubs>>

\* track() publishes the position on the presence channel and changes nothing here
handlePointerMove(pos) ==
  LET pt == getPointFromEvent(pos[1], pos[2])
  IN /\ isDrawingRef => Len(gesture.pts) < budget.pts
     /\ IF ~isDrawingRef \/ currentPointsRef = Null
        THEN /\ UNCHANGED <<heap, canvas>>
        ELSE LET pending == heap[currentPointsRef.ref]
                 prev == pending[Len(pending)]
             IN /\ heap' = [heap EXCEPT ![currentPointsRef.ref] = Append(pending, pt)]
                /\ canvas' = Append(canvas, drawSegment(prev, pt, currentTool,
                                                        currentColor, brushSize))
     /\ gesture' = IF isDrawingRef
                   THEN [gesture EXCEPT !.pts = Append(gesture.pts, pt)]
                   ELSE gesture
     /\ UNCHANGED <<presenceState, budget, conv, roomId, currentTool, currentColor, brushSize, strokes,
                    currentPointsRef, isDrawingRef, remoteCursors, clock, writes,
                    loads, loadSeq, db, rowSeq, notifs, strokeSubs, cursorSubs>>

\* pointercancel / lostpointercapture while the pointer is captured: the effect that
\* attaches the handlers registers pointerdown, pointermove and pointerup only, so no
\* handler runs
handlePointerCancel ==
  /\ isDrawingRef
  /\ ~gesture.lost
  /\ gesture' = [gesture EXCEPT !.lost = TRUE]
  /\ UNCHANGED <<presenceState, budget, conv, roomId, currentTool, currentColor,
                 brushSize, strokes, heap, currentPointsRef, isDrawingRef,
                 remoteCursors, canvas, clock, writes, loads, loadSeq, db, rowSeq,
                 notifs, strokeSubs, cursorSubs>>

\* the stroke commitStroke appends and the insert it issues, both before its await
LocalStroke == Stroke(<<"local", clock>>, currentPointsRef, currentColor, brushSize,
                      currentTool, userId)

\* a commitStroke whose insert takes tool, color and size from the props of the render
\* that attached the handlers
InsertRequestAttached ==
  [arr |-> currentPointsRef.ref, room_id |-> roomId, user_id |-> userId,
   points |-> Val(heap[currentPointsRef.ref]), color |-> "#ff0000",
   size |-> 4, tool |-> "pen", phase |-> "sent"]

InsertRequest ==
  [arr |-> currentPointsRef.ref, room_id |-> roomId, user_id |-> userId,
   points |-> Val(heap[currentPointsRef.ref]), color |-> currentColor,
   size |-> brushSize, tool |-> currentTool, phase |-> "sent"]

\* commitStroke returns before anything when there is nothing to commit
CommitGuard == currentPointsRef # Null /\ Len(heap[currentPointsRef.ref]) # 0

handlePointerUp ==
  /\ isDrawingRef
  /\ isDrawingRef' = FALSE
  /\ IF CommitGuard
     THEN /\ strokes' = Append(strokes, LocalStroke)
          /\ writes' = writes \cup {InsertRequest}
          /\ canvas' = Redrawn(heap, strokes', currentPointsRef, remoteCursors)
     ELSE /\ UNCHANGED <<strokes, writes, canvas>>
  /\ gesture' = NoGesture
  /\ UNCHANGED <<presenceState, budget, conv, roomId, currentTool, currentColor, brushSize, heap,
                 currentPointsRef, remoteCursors, clock, loads, loadSeq, db,
                 rowSeq, notifs, strokeSubs, cursorSubs>>

(***************************************************************************)
(* Persistence writes: the insert reaches the table (and the table's       *)
(* change feed notifies the room's subscribers), then commitStroke's       *)
(* continuation runs; or the insert fails and the continuation runs.       *)
(***************************************************************************)
\* the change feed delivers an event once to every live channel whose filter it passes:
\* INSERT is filtered by the channel's room, DELETE is not filtered
Notify(q, type, row) ==
  LET live == SelectSeq(strokeSubs, LAMBDA c : type = "DELETE" \/ c = row.room_id)
  IN q \o [i \in 1..Len(live) |-> [type |-> type, row |-> row]]

WriteStore(w) ==
  /\ w \in writes
  /\ w.phase = "sent"
  /\ rowSeq < budget.rows
  /\ LET row == Row(rowSeq + 1, w.room_id, w.user_id, w.points, w.color, w.size,
                    w.tool)
     IN /\ db' = Append(db, row)
        /\ notifs' = Notify(notifs, "INSERT", row)
  /\ rowSeq' = rowSeq + 1
  /\ writes' = (writes \ {w}) \cup {[w EXCEPT !.phase = "stored"]}
  /\ UNCHANGED <<presenceState, budget, conv, roomId, currentTool, currentColor, brushSize, strokes, heap,
                 currentPointsRef, isDrawingRef, remoteCursors, canvas, clock,
                 loads, loadSeq, strokeSubs, cursorSubs, gesture>>

\* a commitStroke that takes the optimistic stroke back when the insert fails
commitStrokeResumeRollback(w, error) ==
  /\ w \in writes
  /\ w.phase = IF error THEN "sent" ELSE "stored"
  /\ currentPointsRef' = Null
  /\ writes' = writes \ {w}
  /\ strokes' = IF error
                THEN SelectSeq(strokes, LAMBDA st : st.points # Ref(w.arr))
                ELSE strokes
  /\ UNCHANGED <<presenceState, budget, conv, roomId, currentTool, currentColor, brushSize, heap,
                 isDrawingRef, remoteCursors, canvas, clock, loads, loadSeq, db,
                 rowSeq, notifs, strokeSubs, cursorSubs, gesture>>

\* after the await: the error is logged if there is one; the buffer is dropped
commitStrokeResume(w, error) ==
  /\ w \in writes
  /\ w.phase = IF error THEN "sent" ELSE "stored"
  /\ currentPointsRef' = Null
  /\ writes' = writes \ {w}
  /\ UNCHANGED <<presenceState, budget, conv, roomId, currentTool, currentColor, brushSize, strokes, heap,
                 isDrawingRef, remoteCursors, canvas, clock, loads, loadSeq, db,
                 rowSeq, notifs, strokeSubs, cursorSubs, gesture>>

(***************************************************************************)
(* Other participants: they store rows and delete rows.                    *)
(***************************************************************************)
RemoteInsert(room, payload) ==
  /\ rowSeq < budget.rows
  /\ LET row == Row(rowSeq + 1, room, RemoteUser, payload.points, payload.color,
                    payload.size, payload.tool)
     IN /\ db' = Append(db, row)
        /\ notifs' = Notify(notifs, "INSERT", row)
  /\ rowSeq' = rowSeq + 1
  /\ UNCHANGED <<presenceState, budget, conv, roomId, currentTool, currentColor, brushSize, strokes, heap,
                 currentPointsRef, isDrawingRef, remoteCursors, canvas, clock,
                 writes, loads, loadSeq, strokeSubs, cursorSubs, gesture>>

RemoteDelete(i) ==
  /\ i \in 1..Len(db)
  /\ db' = RemoveAt(db, i)
  /\ notifs' = Notify(notifs, "DELETE", db[i])
  /\ UNCHANGED <<presenceState, budget, conv, roomId, currentTool, currentColor, brushSize, strokes, heap,
                 currentPointsRef, isDrawingRef, remoteCursors, canvas, clock,
                 writes, loads, loadSeq, rowSeq, strokeSubs, cursorSubs, gesture>>

(***************************************************************************)
(* The stroke channel's handlers, on the next event delivered.             *)
(***************************************************************************)
\* an INSERT handler that drops a payload of fewer than 2 points
InsertHandlerValidated(prev, new) ==
  IF new.points.kind = "null" \/ Len(new.points.val) < 2
  THEN prev
  ELSE Append(prev, StrokeOfRow(new))

\* setStrokes(prev => [...prev, newStroke])
InsertHandler(prev, new) == Append(prev, StrokeOfRow(new))

\* a DELETE handler that clears only for a row of the current room
DeleteHandlerScoped(prev, old) == IF old.room_id = roomId THEN <<>> ELSE prev

\* setStrokes([])
DeleteHandler(prev, old) == <<>>

OnInsert ==
  /\ notifs # <<>>
  /\ Head(notifs).type = "INSERT"
  /\ strokes' = InsertHandler(strokes, Head(notifs).row)
  /\ notifs' = Tail(notifs)
  /\ canvas' = Redrawn(heap, strokes', currentPointsRef, remoteCursors)
  /\ UNCHANGED <<presenceState, budget, conv, roomId, currentTool, currentColor, brushSize, heap,
                 currentPointsRef, isDrawingRef, remoteCursors, clock, writes,
                 loads, loadSeq, db, rowSeq, strokeSubs, cursorSubs, gesture>>

OnDelete ==
  /\ notifs # <<>>
  /\ Head(notifs).type = "DELETE"
  /\ strokes' = DeleteHandler(strokes, Head(notifs).row)
  /\ notifs' = Tail(notifs)
  /\ canvas' = Redrawn(heap, strokes', currentPointsRef, remoteCursors)
  /\ UNCHANGED <<presenceState, budget, conv, roomId, currentTool, currentColor, brushSize, heap,
                 currentPointsRef, isDrawingRef, remoteCursors, clock, writes,
                 loads, loadSeq, db, rowSeq, strokeSubs, cursorSubs, gesture>>

(***************************************************************************)
(* loadStrokes: the select is answered from the table, then the            *)
(* continuation applies the answer; or the select fails.                   *)
(***************************************************************************)
LoadRead(l, hasData) ==
  /\ l \in loads
  /\ l.phase = "sent"
  /\ loads' = (loads \ {l}) \cup
              {[l EXCEPT !.phase = "read", !.hasData = hasData,
                         !.data = IF hasData THEN SelectRoom(db, l.room) ELSE <<>>]}
  /\ UNCHANGED <<presenceState, budget, conv, roomId, currentTool, currentColor, brushSize, strokes, heap,
                 currentPointsRef, isDrawingRef, remoteCursors, canvas, clock,
                 writes, loadSeq, db, rowSeq, notifs, strokeSubs, cursorSubs,
                 gesture>>

\* if (data) setStrokes(parsed) else setStrokes([])
LoadResult(prev, l) ==
  IF l.hasData THEN [i \in 1..Len(l.data) |-> StrokeOfRow(l.data[i])] ELSE <<>>

\* if (error) { console.error(...); return; }
LoadError(prev, l) == prev

loadStrokesResume(l) ==
  /\ l \in loads
  /\ l.phase = "read"
  /\ strokes' = LoadResult(strokes, l)
  /\ loads' = loads \ {l}
  /\ canvas' = Redrawn(heap, strokes', currentPointsRef, remoteCursors)
  /\ UNCHANGED <<presenceState, budget, conv, roomId, currentTool, currentColor, brushSize, heap,
                 currentPointsRef, isDrawingRef, remoteCursors, clock, writes,
                 loadSeq, db, rowSeq, notifs, strokeSubs, cursorSubs, gesture>>

loadStrokesFail(l) ==
  /\ l \in loads
  /\ strokes' = LoadError(strokes, l)
  /\ loads' = loads \ {l}
  /\ canvas' = IF strokes' = strokes THEN canvas
               ELSE Redrawn(heap, strokes', currentPointsRef, remoteCursors)
  /\ UNCHANGED <<presenceState, budget, conv, roomId, currentTool, currentColor, brushSize, heap,
                 currentPointsRef, isDrawingRef, remoteCursors, clock, writes,
                 loadSeq, db, rowSeq, notifs, strokeSubs, cursorSubs, gesture>>

(***************************************************************************)
(* Props, surface and presence.                                            *)
(***************************************************************************)
\* a room change whose effects have no cleanup: the old channels stay subscribed
RoomChangeLeaky(r) ==
  /\ r # roomId
  /\ loadSeq < budget.loads
  /\ roomId' = r
  /\ strokeSubs' = Append(strokeSubs, r)
  /\ cursorSubs' = Append(cursorSubs, r)
  /\ loadSeq' = loadSeq + 1
  /\ loads' = loads \cup {LoadRequest(loadSeq + 1, r)}
  /\ canvas' = Redrawn(heap, strokes, currentPointsRef, <<>>)
  /\ UNCHANGED <<presenceState, budget, conv, currentTool, currentColor, brushSize,
                 strokes, heap, currentPointsRef, isDrawingRef, remoteCursors, clock,
                 writes, db, rowSeq, notifs, gesture>>

\* roomId changes: the effects keyed by it clean up (removeChannel ends the delivery
\* of the old channels' events) and run again; the load effect issues a load and calls
\* resizeCanvas, whose redrawAll is the first render's (remoteCursors is the empty
\* Map there)
RoomChange(r) ==
  /\ r # roomId
  /\ loadSeq < budget.loads
  /\ roomId' = r
  /\ strokeSubs' = Append(SelectSeq(strokeSubs, LAMBDA c : c # roomId), r)
  /\ cursorSubs' = Append(SelectSeq(cursorSubs, LAMBDA c : c # roomId), r)
  /\ notifs' = <<>>
  /\ loadSeq' = loadSeq + 1
  /\ loads' = loads \cup {LoadRequest(loadSeq + 1, r)}
  /\ canvas' = Redrawn(heap, strokes, currentPointsRef, <<>>)
  /\ UNCHANGED <<presenceState, budget, conv, currentTool, currentColor, brushSize,
                 strokes, heap, currentPointsRef, isDrawingRef, remoteCursors, clock,
                 writes, db, rowSeq, gesture>>

resizeCanvas ==
  /\ canvas' = Redrawn(heap, strokes, currentPointsRef, <<>>)
  /\ UNCHANGED <<presenceState, budget, conv, roomId, currentTool, currentColor, brushSize, strokes, heap,
                 currentPointsRef, isDrawingRef, remoteCursors, clock, writes,
                 loads, loadSeq, db, rowSeq, notifs, strokeSubs, cursorSubs,
                 gesture>>

PresenceSync(state) ==
  /\ presenceState' = state
  /\ remoteCursors' = SyncCursors(state)
  /\ canvas' = Redrawn(heap, strokes, currentPointsRef, remoteCursors')
  /\ UNCHANGED <<budget, conv, roomId, currentTool, currentColor, brushSize, strokes, heap,
                 currentPointsRef, isDrawingRef, clock, writes, loads, loadSeq, db,
                 rowSeq, notifs, strokeSubs, cursorSubs, gesture>>

\* the effects that copy the props currentTool, currentColor, brushSize into the refs
SetProps(tool, color, size) ==
  /\ <<tool, color, size>> # <<currentTool, currentColor, brushSize>>
  /\ currentTool' = tool
  /\ currentColor' = color
  /\ brushSize' = size
  /\ UNCHANGED <<presenceState, budget, conv, roomId, strokes, heap, currentPointsRef, isDrawingRef,
                 remoteCursors, canvas, clock, writes, loads, loadSeq, db, rowSeq,
                 notifs, strokeSubs, cursorSubs, gesture>>

Tick ==
  /\ clock < budget.clock
  /\ clock' = clock + 1
  /\ UNCHANGED <<presenceState, budget, conv, roomId, currentTool, currentColor, brushSize, strokes, heap,
                 currentPointsRef, isDrawingRef, remoteCursors, canvas, writes,
                 loads, loadSeq, db, rowSeq, notifs, strokeSubs, cursorSubs,
                 gesture>>

Next ==
  \/ \E button \in {0, 2} : handlePointerDown(button, PointerPath(0))
  \/ handlePointerMove(PointerPath(Len(gesture.pts)))
  \/ handlePointerUp
  \/ handlePointerCancel
  \/ \E w \in writes : WriteStore(w)
  \/ \E w \in writes, error \in BOOLEAN : commitStrokeResume(w, error)
  \/ \E room \in Rooms, payload \in RemotePayloads : RemoteInsert(room, payload)
  \/ \E i \in 1..Len(db) : RemoteDelete(i)
  \/ OnInsert
  \/ OnDelete
  \/ \E l \in loads, hasData \in BOOLEAN : LoadRead(l, hasData)
  \/ \E l \in loads : loadStrokesResume(l)
  \/ \E l \in loads : loadStrokesFail(l)
  \/ \E r \in Rooms : RoomChange(r)
  \/ resizeCanvas
  \/ \E state \in Snapshots : PresenceSync(state)
  \/ \E t \in ToolbarStates : SetProps(t[1], t[2], t[3])
  \/ Tick

Init == Mounted(Budget(CaptureGestures, CapturePts, LogClock, RoomRows, LogLoads))

\* the whole system
Spec == Init /\ [][Next]_vars

(***************************************************************************)
(* SpecCapture: the capture state machine and its persistence writes.  The *)
(* user draws, the toolbar changes, the writes are stored or fail; the     *)
(* first load and the stroke channel's events stay in flight for the whole *)
(* session, which lasts less than a tick of the clock.                     *)
(***************************************************************************)
InitCapture ==
  Mounted(Budget(CaptureGestures, CapturePts, 0, CaptureGestures, 1))

NextCapture ==
  \/ \E button \in {0, 2} : handlePointerDown(button, PointerPath(0))
  \/ handlePointerMove(PointerPath(Len(gesture.pts)))
  \/ handlePointerUp
  \/ handlePointerCancel
  \/ \E w \in writes : WriteStore(w)
  \/ \E w \in writes, error \in BOOLEAN : commitStrokeResume(w, error)
  \/ \E t \in ToolbarStates : SetProps(t[1], t[2], t[3])

SpecCapture == InitCapture /\ [][NextCapture]_vars

(***************************************************************************)
(* SpecRoom: a room with other participants.  They store and delete rows   *)
(* and their presence is synchronised, while the user draws; the first     *)
(* load stays in flight and the room does not change.                      *)
(***************************************************************************)
RoomSnapshots == { << <<Bob, Cy>>, <<Cy, Ann>>, <<>> >> }

InitRoom == Mounted(Budget(RoomGestures, RoomPts, 0, RoomRows, 1))

NextRoom ==
  \/ \E button \in {0, 2} : handlePointerDown(button, PointerPath(0))
  \/ handlePointerMove(PointerPath(Len(gesture.pts)))
  \/ handlePointerUp
  \/ \E w \in writes : WriteStore(w)
  \/ \E w \in writes, error \in BOOLEAN : commitStrokeResume(w, error)
  \/ \E room \in Rooms, payload \in RemotePayloads : RemoteInsert(room, payload)
  \/ \E i \in 1..Len(db) : RemoteDelete(i)
  \/ OnInsert
  \/ OnDelete
  \/ \E state \in RoomSnapshots : PresenceSync(state)

SpecRoom == InitRoom /\ [][NextRoom]_vars

(***************************************************************************)
(* SpecLog: the committed list against the table.  Loads are answered or   *)
(* fail, the room changes, rows are stored and deleted, the user draws and *)
(* the clock advances.                                                     *)
(***************************************************************************)
InitLog == Mounted(Budget(LogGestures, LogPts, LogClock, LogRows, LogLoads))

NextLog ==
  \/ \E button \in {0, 2} : handlePointerDown(button, PointerPath(0))
  \/ handlePointerMove(PointerPath(Len(gesture.pts)))
  \/ handlePointerUp
  \/ \E w \in writes : WriteStore(w)
  \/ \E w \in writes, error \in BOOLEAN : commitStrokeResume(w, error)
  \/ \E room \in Rooms, payload \in RemotePayloads : RemoteInsert(room, payload)
  \/ \E i \in 1..Len(db) : RemoteDelete(i)
  \/ OnInsert
  \/ OnDelete
  \/ \E l \in loads, hasData \in BOOLEAN : LoadRead(l, hasData)
  \/ \E l \in loads : loadStrokesResume(l)
  \/ \E l \in loads : loadStrokesFail(l)
  \/ \E r \in Rooms : RoomChange(r)
  \/ Tick

SpecLog == InitLog /\ [][NextLog]_vars

(***************************************************************************)
(* SpecConv: two clients of room R1 that start from the same committed     *)
(* list and receive the same ConvN insert notifications, each in its own   *)
(* order.  The local client is the component; the peer runs the same       *)
(* INSERT handler on its own list.  No load is in flight.                  *)
(***************************************************************************)
PayloadCycle ==
  << [points |-> Val(<<[x |-> 0, y |-> 0], [x |-> 10, y |-> 10]>>),
      color |-> "#00ff00", size |-> 4, tool |-> "pen"],
     [points |-> Val(<<[x |-> 10, y |-> 10]>>),
      color |-> "#00ff00", size |-> 4, tool |-> "pen"],
     [points |-> Val(<<[x |-> 0, y |-> 0], [x |-> 10, y |-> 10]>>),
      color |-> "#00ff00", size |-> 8, tool |-> "eraser"],
     [points |-> Null, color |-> "#00ff00", size |-> 4, tool |-> "pen"] >>

ConvRow(i) ==
  LET payload == PayloadCycle[(i % Len(PayloadCycle)) + 1]
  IN Row(i, "R1", RemoteUser, payload.points, payload.color, payload.size,
         payload.tool)

\* the notifications: rows 1..ConvN; row 0 was stored before the session
ConvRows == {ConvRow(i) : i \in 1..ConvN}

\* the list both clients start from: empty, a loaded stroke, or the result of a load
\* that read row 1 from the store before its notification was handled
ConvBases ==
  { <<>>, <<StrokeOfRow(ConvRow(0))>>,
    <<StrokeOfRow(ConvRow(0)), StrokeOfRow(ConvRow(1))>> }

InitConv ==
  /\ budget = Budget(0, 0, 0, 0, 1)
  /\ \E base \in ConvBases :
       /\ conv = [base |-> base, peer |-> base, toLocal |-> ConvRows,
                  toPeer |-> ConvRows]
       /\ strokes = base
       /\ canvas = redrawAll(<<>>, base, Null, "pen", "#ff0000", 4, <<>>)
  /\ roomId = "R1"
  /\ currentTool = "pen"
  /\ currentColor = "#ff0000"
  /\ brushSize = 4
  /\ heap = <<>>
  /\ currentPointsRef = Null
  /\ isDrawingRef = FALSE
  /\ remoteCursors = <<>>
  /\ clock = 0
  /\ writes = {}
  /\ loads = {}
  /\ loadSeq = 1
  /\ db = <<>>
  /\ rowSeq = 0
  /\ notifs = <<>>
  /\ strokeSubs = <<"R1">>
  /\ cursorSubs = <<"R1">>
  /\ presenceState = <<>>
  /\ gesture = NoGesture

\* the channel delivers one of the notifications to the local client
ConvArrive(row) ==
  /\ row \in conv.toLocal
  /\ conv' = [conv EXCEPT !.toLocal = conv.toLocal \ {row}]
  /\ notifs' = Notify(notifs, "INSERT", row)
  /\ UNCHANGED <<presenceState, budget, roomId, currentTool, currentColor, brushSize, strokes,
                 heap, currentPointsRef, isDrawingRef, remoteCursors, canvas, clock,
                 writes, loads, loadSeq, db, rowSeq, strokeSubs, cursorSubs,
                 gesture>>

\* the peer's INSERT handler on one of the notifications
ConvPeerInsert(row) ==
  /\ row \in conv.toPeer
  /\ conv' = [conv EXCEPT !.toPeer = conv.toPeer \ {row},
                          !.peer = InsertHandler(conv.peer, row)]
  /\ UNCHANGED <<presenceState, budget, roomId, currentTool, currentColor, brushSize, strokes,
                 heap, currentPointsRef, isDrawingRef, remoteCursors, canvas, clock,
                 writes, loads, loadSeq, db, rowSeq, notifs, strokeSubs,
                 cursorSubs, gesture>>

NextConv ==
  \/ \E row \in ConvRows : ConvArrive(row)
  \/ OnInsert
  \/ \E row \in ConvRows : ConvPeerInsert(row)

SpecConv == InitConv /\ [][NextConv]_vars

(***************************************************************************)
(* SpecRender: the renderer.  The list is filled by the first load, by     *)
(* notifications and by local commits, presence is synchronised and the    *)
(* surface is resized.  Writes stay in flight.                              *)
(***************************************************************************)
InitRender == Mounted(Budget(RenderGestures, RenderPts, 0, RenderRows, 1))

NextRender ==
  \/ \E button \in {0, 2} : handlePointerDown(button, PointerPath(0))
  \/ handlePointerMove(PointerPath(Len(gesture.pts)))
  \/ handlePointerUp
  \/ \E payload \in RemotePayloads : RemoteInsert("R1", payload)
  \/ OnInsert
  \/ \E l \in loads : LoadRead(l, TRUE)
  \/ \E l \in loads : loadStrokesResume(l)
  \/ \E state \in RoomSnapshots : PresenceSync(state)
  \/ resizeCanvas

SpecRender == InitRender /\ [][NextRender]_vars

(***************************************************************************)
(* SpecPresence: the presence channel.  Every snapshot of at most SnapKeys *)
(* connection keys is synchronised, each key with no record, one record or *)
(* two, while the user makes a gesture and the surface is resized.         *)
(***************************************************************************)
PresenceRecords == {Ann, Bob, BobStale, Cy}

PresenceLists ==
  {<<>>} \cup {<<r>> : r \in PresenceRecords} \cup {<<Bob, Cy>>, <<Cy, Ann>>}

PresenceSnapshots == UNION {[1..k -> PresenceLists] : k \in 0..SnapKeys}

InitPresence == Mounted(Budget(1, PresencePts, 0, 0, 1))

NextPresence ==
  \/ \E button \in {0, 2} : handlePointerDown(button, PointerPath(0))
  \/ handlePointerMove(PointerPath(Len(gesture.pts)))
  \/ handlePointerUp
  \/ \E state \in PresenceSnapshots : PresenceSync(state)
  \/ resizeCanvas

SpecPresence == InitPresence /\ [][NextPresence]_vars

(***************************************************************************)
(* SpecSubs: the subscriptions across room changes.  The room changes      *)
(* back and forth while participants of both rooms store and delete rows   *)
(* and a local stroke's write is in flight; the loads stay in flight.      *)
(***************************************************************************)
InitSubs == Mounted(Budget(1, 1, 0, SubsRows, SubsLoads))

\* a channel passes an event on by its room alone: two payloads stand for all
SubsPayloads == {PayloadCycle[1], PayloadCycle[2]}

NextSubs ==
  \/ \E button \in {0, 2} : handlePointerDown(button, PointerPath(0))
  \/ handlePointerUp
  \/ \E w \in writes : WriteStore(w)
  \/ \E w \in writes, error \in BOOLEAN : commitStrokeResume(w, error)
  \/ \E room \in Rooms, payload \in SubsPayloads : RemoteInsert(room, payload)
  \/ \E i \in 1..Len(db) : RemoteDelete(i)
  \/ OnInsert
  \/ OnDelete
  \/ \E r \in Rooms : RoomChange(r)

SpecSubs == InitSubs /\ [][NextSubs]_vars

(***************************************************************************)
(* Properties.                                                             *)
(***************************************************************************)
IsPrefix(a, b) == Len(a) <= Len(b) /\ SubSeq(b, 1, Len(a)) = a

Last(q) == q[Len(q)]

\* a step of handlePointerUp: the only handler that ends Capturing
PointerUpStep == isDrawingRef /\ ~isDrawingRef'

\* the points the in-progress buffer holds
Recorded == IF currentPointsRef = Null THEN <<>> ELSE heap[currentPointsRef.ref]

\* C1: a gesture that recorded 0 or 1 points at pointer-up issues no persistence
\* insert and adds no stroke to the committed list.
C1_DegenerateDropped ==
  [][(PointerUpStep /\ Len(Recorded) <= 1)
       => (strokes' = strokes /\ writes' = writes)]_vars

\* every committed stroke so far has at least 2 points
NoDegenerateCommitted ==
  \A i \in 1..Len(strokes) : Len(PointsOf(heap, strokes[i].points)) >= 2

\* C2: in a gesture whose pointer-down came while an earlier stroke's write was in
\* flight, every pointer-move appends its point to the in-progress stroke and the
\* pointer-up commits a stroke holding all the gesture's points, whenever the
\* earlier write completes.
C2_DrawingUninterrupted ==
  [][(isDrawingRef /\ gesture.inFlight /\ NoDegenerateCommitted)
       => /\ (Len(gesture'.pts) = Len(gesture.pts) + 1)
               => /\ currentPointsRef' # Null
                  /\ heap'[currentPointsRef'.ref] = gesture'.pts
          /\ (PointerUpStep /\ Len(gesture.pts) >= 2)
               => /\ Len(strokes') = Len(strokes) + 1
                  /\ PointsOf(heap', Last(strokes').points) = gesture.pts]_vars

\* C6: a gesture started from Idle with no commit in flight, of pointer-down, k >= 1
\* pointer-moves and pointer-up, appends at pointer-up exactly one stroke, whose points
\* are the k+1 captured points in capture order, and issues exactly one insert with
\* the room id, author, points, color, size and tool of the appended stroke.
C6_GestureCommitted ==
  [][(PointerUpStep /\ gesture.fromIdle /\ ~gesture.inFlight /\ Len(gesture.pts) >= 2)
       => /\ Len(strokes') = Len(strokes) + 1
          /\ IsPrefix(strokes, strokes')
          /\ LET s == Last(strokes')
             IN /\ PointsOf(heap', s.points) = gesture.pts
                /\ \A k \in 1..Len(gesture.pts) :
                     gesture.pts[k] = getPointFromEvent(PointerPath(k - 1)[1],
                                                        PointerPath(k - 1)[2])
                /\ s.userId = userId
                /\ \E w \in writes' :
                     /\ w \notin writes
                     /\ writes' = writes \cup {w}
                     /\ w.room_id = roomId
                     /\ w.user_id = s.userId
                     /\ w.points = Val(gesture.pts)
                     /\ w.color = s.color /\ s.color = currentColor
                     /\ w.size = s.size /\ s.size = brushSize
                     /\ w.tool = s.tool /\ s.tool = currentTool]_vars

\* a first gesture of three points is committed with another toolbar setting than the
\* initial one, and its write is in flight
C6_Witness ==
  /\ Len(heap) = 1
  /\ Len(strokes) = 1
  /\ strokes[1].points = Ref(1)
  /\ Len(heap[1]) = 3
  /\ strokes[1].tool = "eraser"
  /\ \E w \in writes : w.arr = 1 /\ w.tool = "eraser"

\* C7: the stroke is appended at pointer-up, while its write is pending; when the
\* write fails the committed list is unchanged (the stroke stays) and no insert is
\* issued again.
C7_OptimisticNoRollback ==
  [][/\ \A a \in 1..Len(heap') :
          ((\E w \in writes' : w.arr = a) /\ ~(\E w \in writes : w.arr = a))
            => /\ Len(strokes') = Len(strokes) + 1
               /\ IsPrefix(strokes, strokes')
               /\ Last(strokes').points = Ref(a)
               /\ \A i \in 1..Len(strokes) : strokes[i].points # Ref(a)
               /\ \A w \in writes' : w.arr = a => w.phase = "sent"
     /\ \A w \in writes :
          (w.phase = "sent" /\ \A w2 \in writes' : w2.arr # w.arr)
            => /\ strokes' = strokes
               /\ \E i \in 1..Len(strokes) : strokes[i].points = Ref(w.arr)
               /\ writes' = writes \ {w}]_vars

\* a committed local stroke whose write has failed: nothing was stored, no write of it
\* is in flight, and it is still in the list
C7_Witness ==
  /\ rowSeq = 0
  /\ \E i \in 1..Len(strokes) :
       /\ strokes[i].points.kind = "ref"
       /\ ~(\E w \in writes : w.arr = strokes[i].points.ref)

\* a step of the DELETE handler, and one of the INSERT handler
DeleteStep ==
  /\ notifs # <<>> /\ Head(notifs).type = "DELETE"
  /\ notifs' = Tail(notifs) /\ roomId' = roomId

InsertStep ==
  /\ notifs # <<>> /\ Head(notifs).type = "INSERT"
  /\ notifs' = Tail(notifs) /\ roomId' = roomId

\* C3: the committed list is append-only and order-preserving: in every step the
\* new list is the empty list produced by a clear or has the previous list as a
\* prefix.
C3_AppendOnly ==
  [][(DeleteStep /\ strokes' = <<>>) \/ IsPrefix(strokes, strokes')]_vars

\* C4: no two entries of the committed list carry the same id.
C4_UniqueIds ==
  \A i, j \in 1..Len(strokes) : i # j => strokes[i].id # strokes[j].id

\* C5: after a failed load completes, the committed list is empty.
C5_LoadFailureEmpties ==
  [][(\E l \in loads : loadStrokesFail(l)) => strokes' = <<>>]_vars

\* C8: a Delete event empties the committed list whatever it held and whichever row
\* it concerned, leaves the in-progress stroke, the capture state and the cursors
\* unchanged, and the redraw that follows draws the background, the in-progress
\* stroke if it has at least 2 points and the cursors, and no committed stroke.
C8_ClearEmptiesList ==
  [][DeleteStep
       => /\ strokes' = <<>>
          /\ UNCHANGED <<currentPointsRef, heap, isDrawingRef, remoteCursors>>
          /\ LET n == IF Len(Recorded) >= 2 THEN 1 ELSE 0
             IN /\ Len(canvas') = 1 + n + Len(remoteCursors)
                /\ canvas'[1] = Background
                /\ n = 1 => /\ canvas'[2].src = "pending"
                            /\ canvas'[2].pts = Recorded
                /\ \A c \in 1..Len(remoteCursors) :
                     /\ canvas'[1 + n + c].src = "cursor"
                     /\ canvas'[1 + n + c].label = remoteCursors[c].userName
                     /\ canvas'[1 + n + c].style = remoteCursors[c].userColor
                     /\ canvas'[1 + n + c].pts =
                          <<[x |-> remoteCursors[c].x, y |-> remoteCursors[c].y]>>]_vars

\* a Delete was handled after a local commit (its write is still in flight and the
\* list is empty again), with cursors in the mapping and a buffer of 2 points drawn
C8_Witness ==
  /\ strokes = <<>>
  /\ writes # {}
  /\ rowSeq > Len(db)
  /\ \A i \in 1..Len(notifs) : notifs[i].type # "DELETE"
  /\ remoteCursors # <<>>
  /\ Len(Recorded) >= 2
  /\ Len(canvas) = 2 + Len(remoteCursors)
  /\ canvas[2].src = "pending"

\* C9: two clients that start from the same list and receive the same notifications
\* in any order end with the same set of strokes, and each notification's stroke is
\* in either final list exactly once.
Count(q, x) == Cardinality({i \in 1..Len(q) : q[i].id = x.id})

Range(q) == {q[i] : i \in 1..Len(q)}

ConvDone == conv.toLocal = {} /\ conv.toPeer = {} /\ notifs = <<>>

C9_Convergence ==
  (conv # NoConv /\ ConvDone)
    => /\ Range(strokes) = Range(conv.peer)
       /\ \A row \in ConvRows :
            /\ Count(strokes, StrokeOfRow(row)) = 1
            /\ Count(conv.peer, StrokeOfRow(row)) = 1

Degenerate(row) == row.points.kind = "null" \/ Len(row.points.val) < 2

\* the points of the strokes a redraw draws, in list order
RenderablePts(hp, ss) ==
  LET sel == SelectSeq(ss, LAMBDA st : Len(PointsOf(hp, st.points)) >= 2)
  IN [i \in 1..Len(sel) |-> PointsOf(hp, sel[i].points)]

CommittedPts(cv) ==
  LET sel == SelectSeq(cv, LAMBDA o : o.src = "committed")
  IN [i \in 1..Len(sel) |-> sel[i].pts]

\* C10 as stated: an Insert notification of a stroke with fewer than 2 points (or no
\* points) leaves the committed list as it was.
C10_DegenerateInsertRejected ==
  [][(InsertStep /\ Degenerate(Head(notifs).row)) => strokes' = strokes]_vars

\* C10 amended: such a notification is appended to the committed list like any other
\* (the list grows by one, the earlier entries stay), and the redraw that follows
\* draws the strokes of at least 2 points that were there before and nothing for it.
C10_DegenerateInsertNotDrawn ==
  [][(InsertStep /\ Degenerate(Head(notifs).row))
       => /\ Len(strokes') = Len(strokes) + 1
          /\ IsPrefix(strokes, strokes')
          /\ Last(strokes').id = <<"row", Head(notifs).row.id>>
          /\ Last(strokes').points = Head(notifs).row.points
          /\ CommittedPts(canvas') = RenderablePts(heap, strokes)]_vars

\* the list holds a local stroke of 2 points and, after it, a notified stroke of fewer
\* than 2 points; the surface shows one committed stroke
C10_Witness ==
  /\ Len(strokes) = 2
  /\ strokes[1].points.kind = "ref"
  /\ Len(PointsOf(heap, strokes[1].points)) >= 2
  /\ strokes[2].id[1] = "row"
  /\ Len(PointsOf(heap, strokes[2].points)) < 2
  /\ Len(CommittedPts(canvas)) = 1

\* a step that redraws the whole surface (a pointer-move only adds a segment)
FullRedraw == canvas' # canvas /\ Last(canvas').src # "segment"

\* the operations of one source on the surface
OpsOf(cv, src) == SelectSeq(cv, LAMBDA o : o.src = src)

\* C11: in a full redraw a committed stroke whose points are missing or fewer than 2
\* produces no drawing operation and does not stop the redraw: the committed
\* operations are those of the strokes of at least 2 points, in list order, the
\* in-progress stroke is drawn if it has at least 2 points, and a redraw for a change
\* of the list or of the cursors draws every cursor.
C11_RendererFailsClosed ==
  [][FullRedraw
       => /\ canvas'[1] = Background
          /\ CommittedPts(canvas') = RenderablePts(heap', strokes')
          /\ \A i \in 1..Len(canvas') :
               canvas'[i].src = "committed" => Len(canvas'[i].pts) >= 2
          /\ Len(OpsOf(canvas', "pending")) = IF Len(Recorded') >= 2 THEN 1 ELSE 0
          /\ (strokes' # strokes \/ remoteCursors' # remoteCursors)
               => Len(OpsOf(canvas', "cursor")) = Len(remoteCursors')]_vars

\* the list holds a stroke that cannot be drawn before one that can, from a load or
\* a notification and from a local commit; the surface shows the stroke that can be
\* drawn, the in-progress stroke and the cursors
C11_Witness ==
  /\ Len(strokes) = 2
  /\ Len(PointsOf(heap, strokes[1].points)) < 2
  /\ Len(PointsOf(heap, strokes[2].points)) >= 2
  /\ {strokes[1].id[1], strokes[2].id[1]} = {"row", "local"}
  /\ remoteCursors # <<>>
  /\ Len(OpsOf(canvas, "committed")) = 1
  /\ Len(OpsOf(canvas, "pending")) = 1
  /\ Len(OpsOf(canvas, "cursor")) = Len(remoteCursors)

\* the first presence records of a snapshot's connection keys
FirstRecords(state) == {state[k][1] : k \in {j \in 1..Len(state) : Len(state[j]) > 0}}

\* C12: after a presence sync the mapping has no entry keyed by the local userId, one
\* entry for each remote userId that is the first presence record of a connection
\* key of the snapshot, each carrying such a record's name, color and position, and
\* no entry for anyone else, whatever the mapping held before.
C12_CursorsRebuilt ==
  [][PresenceSync(presenceState')
       => /\ \A i \in 1..Len(remoteCursors') : remoteCursors'[i].userId # userId
          /\ \A i, j \in 1..Len(remoteCursors') :
               i # j => remoteCursors'[i].userId # remoteCursors'[j].userId
          /\ {remoteCursors'[i].userId : i \in 1..Len(remoteCursors')}
               = {r.user_id : r \in FirstRecords(presenceState')} \ {userId}
          /\ \A i \in 1..Len(remoteCursors') :
               \E r \in FirstRecords(presenceState') :
                 /\ r.user_id = remoteCursors'[i].userId
                 /\ r.user_name = remoteCursors'[i].userName
                 /\ r.user_color = remoteCursors'[i].userColor
                 /\ r.x = remoteCursors'[i].x
                 /\ r.y = remoteCursors'[i].y]_vars

\* a sync of a snapshot in which U2 has two connection keys with different positions
\* has left one entry, and the surface shows one cursor
C12_Witness ==
  /\ Len(presenceState) = 2
  /\ presenceState[1] # presenceState[2]
  /\ \A k \in 1..2 : Len(presenceState[k]) > 0 /\ presenceState[k][1].user_id = "U2"
  /\ Len(remoteCursors) = 1
  /\ Len(OpsOf(canvas, "cursor")) = 1

\* C13: in every state at most one stroke channel and at most one presence channel are
\* live, both of the current room; no event is queued twice; and the INSERT handler
\* only ever appends a row of the current room, so that (the loads being in flight)
\* no stored row is in the list twice.
C13_SubscriptionsFollowRoom ==
  /\ [](/\ Len(strokeSubs) <= 1 /\ \A i \in 1..Len(strokeSubs) : strokeSubs[i] = roomId
        /\ Len(cursorSubs) <= 1 /\ \A i \in 1..Len(cursorSubs) : cursorSubs[i] = roomId
        /\ \A i, j \in 1..Len(notifs) : i # j => notifs[i] # notifs[j]
        /\ \A i, j \in 1..Len(strokes) :
             (i # j /\ strokes[i].id[1] = "row") => strokes[i].id # strokes[j].id)
  /\ [][InsertStep => /\ Head(notifs).row.room_id = roomId
                      /\ Last(strokes').id = <<"row", Head(notifs).row.id>>
                      /\ Len(strokes') = Len(strokes) + 1]_vars

\* the room has changed to R2 and back; a row of R1 stored while the room was R2 is
\* in the table and not in the list, and a row notified since is in the list
C13_Witness ==
  /\ roomId = "R1"
  /\ loadSeq = 3
  /\ Len(db) = 2
  /\ db[1].room_id = "R1"
  /\ db[2].room_id = "R1"
  /\ \A i \in 1..Len(strokes) : strokes[i].id # <<"row", db[1].id>>
  /\ \E i \in 1..Len(strokes) : strokes[i].id = <<"row", db[2].id>>
  /\ notifs = <<>>

\* a pointer-move that records a point
RecordingMove == Len(heap') = Len(heap) /\ heap' # heap

\* a change of the toolbar's settings
ToolbarChange ==
  <<currentTool', currentColor', brushSize'>> # <<currentTool, currentColor, brushSize>>

\* C14: each incremental segment is drawn with the tool, color and size current at
\* its pointer-move, the committed stroke and the persistence insert carry the values
\* current at pointer-up, and a change of the values touches neither the capture
\* state nor the buffer, the list or the surface.
C14_PropsAtPointOfUse ==
  /\ [][RecordingMove
          => /\ Len(canvas') = Len(canvas) + 1
             /\ Last(canvas').src = "segment"
             /\ Last(canvas').width = brushSize
             /\ Last(canvas').comp =
                  IF currentTool = "eraser" THEN "destination-out" ELSE "source-over"
             /\ currentTool # "eraser" => Last(canvas').style = currentColor]_vars
  /\ [][(PointerUpStep /\ strokes' # strokes)
          => /\ Last(strokes').tool = currentTool
             /\ Last(strokes').color = currentColor
             /\ Last(strokes').size = brushSize
             /\ \E w \in writes' \ writes :
                  w.tool = currentTool /\ w.color = currentColor /\ w.size = brushSize]_vars
  /\ [][ToolbarChange
          => UNCHANGED <<isDrawingRef, currentPointsRef, heap, strokes, writes,
                         canvas>>]_vars

\* the toolbar changed inside a gesture: its two segments were drawn in different
\* modes, after an earlier gesture was committed as an eraser stroke
C14_Witness ==
  /\ Len(strokes) = 1
  /\ strokes[1].tool = "eraser"
  /\ isDrawingRef
  /\ Len(Recorded) = 3
  /\ Len(canvas) >= 2
  /\ canvas[Len(canvas)].src = "segment"
  /\ canvas[Len(canvas) - 1].src = "segment"
  /\ canvas[Len(canvas)].comp # canvas[Len(canvas) - 1].comp

\* C15: a resize leaves the committed list unchanged and redraws the current state:
\* the committed strokes in list order, the in-progress stroke, and every cursor of
\* the mapping as it is at the resize.
C15_ResizeRedrawsAll ==
  [][resizeCanvas
       => /\ strokes' = strokes
          /\ canvas'[1] = Background
          /\ CommittedPts(canvas') = RenderablePts(heap, strokes)
          /\ Len(OpsOf(canvas', "pending")) = IF Len(Recorded) >= 2 THEN 1 ELSE 0
          /\ Len(OpsOf(canvas', "cursor")) = Len(remoteCursors)
          /\ \A c \in 1..Len(remoteCursors) :
               OpsOf(canvas', "cursor")[c].label = remoteCursors[c].userName]_vars

\* C16: the loss of the pointer capture ends Capturing as pointer-up does: the step
\* that loses it leaves the capture state Idle with the gesture finalized, and no
\* later pointer-move records a point before the next pointer-down.
C16_CaptureLossEndsGesture ==
  /\ [][(~gesture.lost /\ gesture'.lost)
          => (~isDrawingRef' /\ (Len(Recorded) >= 2 => strokes' # strokes))]_vars
  /\ [][gesture.lost => ~RecordingMove]_vars

\* C17: a stroke of the committed list keeps its id, points, color, size, tool and
\* userId in every step that keeps it in the list (the list only grows at its end
\* here, so a stroke keeps its place), although it shares its points array with the
\* in-progress buffer until its write completes.
C17_CommittedImmutable ==
  [][\A i \in 1..Len(strokes) :
       i <= Len(strokes')
         => /\ strokes'[i] = strokes[i]
            /\ PointsOf(heap', strokes'[i].points) = PointsOf(heap, strokes[i].points)]_vars

\* a stroke is committed with its write in flight, and a new gesture has recorded
\* points in a buffer of its own; the buffer of an earlier state was the stroke's array
C17_Witness ==
  /\ Len(strokes) >= 1
  /\ strokes[1].points.kind = "ref"
  /\ \E w \in writes : w.arr = strokes[1].points.ref
  /\ isDrawingRef
  /\ currentPointsRef # Null
  /\ currentPointsRef # strokes[1].points
  /\ Len(Recorded) >= 2

\* C18: every cursor on the surface was drawn with paint-over compositing, as a mark
\* in the participant's color, whatever the tools of the committed strokes.
C18_CursorsPaintOver ==
  \A i \in 1..Len(canvas) :
    canvas[i].src = "cursor"
      => /\ canvas[i].comp = "source-over"
         /\ \E c \in 1..Len(remoteCursors) :
              /\ remoteCursors[c].userName = canvas[i].label
              /\ remoteCursors[c].userColor = canvas[i].style

\* C19: whenever a load's result is installed as the committed list, the load was
\* issued for the current room.
C19_StaleLoadIgnored ==
  [][\A l \in loads : loadStrokesResume(l) => l.room = roomId]_vars

\* C20: whenever the capture state is Idle the in-progress stroke is null, and the
\* surface never shows the same points both as a committed stroke and as the
\* in-progress stroke.
C20_IdleHasNoPending ==
  /\ ~isDrawingRef => currentPointsRef = Null
  /\ \A i, j \in 1..Len(canvas) :
       (canvas[i].src = "committed" /\ canvas[j].src = "pending")
         => canvas[i].pts # canvas[j].pts

============================================================================
